---- MODULE Spec2Model ----
(***************************************************************************)
(* A model of graphql-upload-nextjs (src/src/index.ts): the Upload cell,   *)
(* setValueAtPath over the parsed operations document, processUpload, and  *)
(* the uploadProcess orchestrator with its concurrent per-key tasks.       *)
(*                                                                         *)
(* The JavaScript object graph is a heap: a sequence of nodes, a node's id *)
(* being its index.  Objects, arrays and Upload instances are nodes; a     *)
(* value is a scalar or a reference to a node, so that aliasing (one       *)
(* Upload held at several paths) is modelled as the program has it.        *)
(* One action is one run-to-completion step of the event loop: the code    *)
(* between two awaits, or one promise handler.                             *)
(***************************************************************************)
EXTENDS Integers, Sequences, FiniteSets, TLC

VARIABLES
    request,    \* the incoming multipart request (fixed during a run)
    pc,         \* position of uploadProcess
    heap,       \* the object graph reachable from `operations`
    task,       \* per map key: the processUpload(...).then(...).catch(...) chain
    joined,     \* Promise.all(fileProcessingPromises) has been called
    unhandled,  \* keys whose filePromise rejected with no handler attached
    engine,     \* invocations of server.executeOperation, with their arguments
    body,       \* response.body, as server.executeOperation returned it
    collected,  \* collectedSubsequentResults
    response,   \* the NextResponse returned, or NoResponse
    cell,       \* a free-standing Upload instance driven by its client
    calls,      \* the resolve/reject calls made on `cell`, in order
    graft,      \* a free-standing setValueAtPath call: its arguments, and how often it ran
    buffer,     \* the bytes processUpload buffered for a resolved file
    streams,    \* the streams createReadStream has returned, with what each delivered
    scalar      \* a free-standing use of the GraphQLUpload scalar: the call, its outcome, what an await got

vars == <<request, pc, heap, task, joined, unhandled, engine, body, collected, response, cell, calls,
          graft, buffer, streams, scalar>>

(***************************************************************************)
(* Bounds of the model.                                                    *)
(***************************************************************************)
NumKeys == 2          \* map keys "0" .. NumKeys-1
MaxSubsequent == 2    \* longest incremental sequence the engine yields
MaxCalls == 4         \* resolve/reject calls made on the free-standing cell

(***************************************************************************)
(* settings: { allowedTypes, maxFileSize }                                 *)
(***************************************************************************)
maxFileSize == 2
allowedTypes == {"text/plain", "image/png"}

(***************************************************************************)
(* JavaScript values.  A value is undefined, null, a string, or a          *)
(* reference to a heap node.                                               *)
(***************************************************************************)
Undefined == [t |-> "undef", s |-> "", id |-> 0]
Null == [t |-> "null", s |-> "", id |-> 0]
Str(x) == [t |-> "str", s |-> x, id |-> 0]
Ref(n) == [t |-> "ref", s |-> "", id |-> n]

\* !v : undefined, null and the empty string are falsy; objects are truthy.
Falsy(v) == v.t \in {"undef", "null"} \/ (v.t = "str" /\ v.s = "")

\* typeof v === 'object' (null is excluded by the falsy test made first)
TypeofObject(v) == v.t \in {"ref", "null"}

EmptyMap == [x \in {} |-> Undefined]
\* (mutant) a property that is already there is kept
PutIfAbsent(f, k, v) == [x \in (DOMAIN f) \cup {k} |-> IF x \in DOMAIN f THEN f[x] ELSE v]

Put(f, k, v) == [x \in (DOMAIN f) \cup {k} |-> IF x = k THEN v ELSE f[x]]
Get(f, k) == IF k \in DOMAIN f THEN f[k] ELSE Undefined

(***************************************************************************)
(* class Upload: the promise ("pending", "fulfilled", "rejected", with its *)
(* settled value) and the `file` field.  The constructor attaches          *)
(* promise.catch(() => {}), so the promise always has a handler.           *)
(***************************************************************************)
NoFile == [fileName |-> ""]     \* the `file` field while it is undefined
NoError == <<>>

NewUpload == [state |-> "pending", value |-> NoFile, error |-> NoError, file |-> NoFile, handled |-> TRUE]

\* (mutant) the promise's own resolve is not called
UploadResolveForgotten(c, f) == [c EXCEPT !.file = f]

\* this.resolve = (file) => { this.file = file; resolve(file) }
UploadResolve(c, f) ==
    IF c.state = "pending"
    THEN [c EXCEPT !.file = f, !.state = "fulfilled", !.value = f]
    ELSE [c EXCEPT !.file = f]

\* (mutant) reject does nothing
UploadRejectForgotten(c, e) == c

\* this.reject = reject
UploadReject(c, e) ==
    IF c.state = "pending"
    THEN [c EXCEPT !.state = "rejected", !.error = e]
    ELSE c

(***************************************************************************)
(* Heap nodes: kind "obj" ({}), "arr" ([]) or "upload" (an Upload), the    *)
(* node's own enumerable properties f, and for an Upload its cell and the  *)
(* map key whose task created it.                                          *)
(***************************************************************************)
Node(kind, f) == [kind |-> kind, f |-> f]
UploadNode(c, k) == [kind |-> "upload", f |-> EmptyMap, cell |-> c, owner |-> k]

Alloc(h, node) == Append(h, node)
NewId(h) == Len(h) + 1

\* (mutant) no segment counts as an array index
IsArrayIndexNever(seg) == FALSE

\* /^\d+$/.test(segment)
IsArrayIndex(seg) == seg \in {ToString(n) : n \in 0..9}

\* Reading a document along a path: obj[k1][k2]..., undefined once a
\* segment is missing or a scalar is reached.
RECURSIVE ReadFrom(_, _, _, _)
ReadFrom(h, v, keys, i) ==
    IF i > Len(keys) THEN v
    ELSE IF v.t # "ref" THEN Undefined
    ELSE ReadFrom(h, Get(h[v.id].f, keys[i]), keys, i + 1)

ValueAtPath(h, obj, path) == ReadFrom(h, Ref(obj), path, 1)

(***************************************************************************)
(* setValueAtPath(obj, path, value).  A path is the sequence of segments   *)
(* path.split('.') yields.  Returns the heap after the assignment.         *)
(***************************************************************************)
RECURSIVE SetFrom(_, _, _, _, _)
SetFrom(h, cur, keys, i, value) ==
    IF i >= Len(keys)
    THEN [h EXCEPT ![cur].f = Put(@, keys[Len(keys)], value)]
    ELSE LET key == keys[i]
             nextKeyIsArrayIndex == IsArrayIndex(keys[i + 1])
             old == Get(h[cur].f, key)
         IN  IF Falsy(old) \/ ~TypeofObject(old)
             THEN LET fresh == Node(IF nextKeyIsArrayIndex THEN "arr" ELSE "obj", EmptyMap)
                      h1 == Alloc(h, fresh)
                      h2 == [h1 EXCEPT ![cur].f = Put(@, key, Ref(NewId(h)))]
                  IN  SetFrom(h2, NewId(h), keys, i + 1, value)
             ELSE SetFrom(h, old.id, keys, i + 1, value)

\* (mutant) into an array that already holds something at the index, the
\* value is pushed instead of assigned
setValueAtPathPushing(h, obj, path, value) ==
    LET parent == ReadFrom(h, Ref(obj), SubSeq(path, 1, Len(path) - 1), 1)
        last == path[Len(path)]
    IN  IF parent.t = "ref" /\ h[parent.id].kind = "arr" /\ last \in DOMAIN h[parent.id].f
        THEN [h EXCEPT ![parent.id].f = Put(@, ToString(Cardinality(DOMAIN h[parent.id].f)), value)]
        ELSE SetFrom(h, obj, path, 1, value)

\* (mutant) the container that takes the value is emptied first
setValueAtPathEmptying(h, obj, path, value) ==
    LET h1 == SetFrom(h, obj, path, 1, value)
        parent == ReadFrom(h1, Ref(obj), SubSeq(path, 1, Len(path) - 1), 1)
    IN  [h1 EXCEPT ![parent.id].f = Put(EmptyMap, path[Len(path)], value)]

setValueAtPath(h, obj, path, value) == SetFrom(h, obj, path, 1, value)

(***************************************************************************)
(* Errors, as the text of their message: a tuple of its parts.             *)
(***************************************************************************)
InvalidFileProperties == <<"Invalid file properties: name, size, or type is missing or invalid.">>
NotAllowed(mime) == <<"File type is not allowed", mime>>
TypeErrorNotAFunction == <<"TypeError: forEach is not a function">>
FailedToProcess(name, cause) == <<"Failed to process file", name>> \o cause

(***************************************************************************)
(* A file part of the form data (FormDataFile / FileStream), with what the *)
(* two classification libraries answer on its bytes: `sniff` is the mime   *)
(* fileTypeFromBuffer finds ("" when it finds none), `isText` is isText's  *)
(* answer ("true", "false", "null") or "throws".                           *)
(***************************************************************************)
NoPart == [name |-> "", size |-> -1, type |-> "", sniff |-> "", isText |-> "", part |-> "none"]
TextField == [name |-> "", size |-> -1, type |-> "", sniff |-> "", isText |-> "", part |-> "text"]
FilePart(name, size, type, sniff, isText) ==
    [name |-> name, size |-> size, type |-> type, sniff |-> sniff, isText |-> isText, part |-> "file"]

NoteTxt == FilePart("note.txt", 1, "application/octet-stream", "", "true")
EvilPng == FilePart("evil.png", maxFileSize, "image/png", "application/x-msdownload", "false")
NoType  == FilePart("blank", 0, "", "", "true")
BigPng  == FilePart("big.png", maxFileSize + 1, "image/png", "image/png", "false")

FileParts == {NoteTxt, EvilPng, NoType, BigPng}

\* Every combination of what processUpload looks at: the name, the size,
\* the declared type, and the answers of the two classification libraries.
ClassifiedParts ==
    { FilePart(n, s, t, sn, it) :
        n \in {"", "a.bin"}, s \in {0, maxFileSize},
        t \in {"", "image/png", "application/pdf"},
        sn \in {"", "image/png", "application/x-msdownload"},
        it \in {"true", "false", "null", "throws"} }

\* extractFiles: the entries of the form data that are File instances
extractFiles(parts) == [k \in DOMAIN parts |-> IF parts[k].part = "file" THEN parts[k] ELSE NoPart]

(***************************************************************************)
(* processUpload(file, allowedTypes)                                       *)
(***************************************************************************)
\* (mutant) only the name is looked at
InvalidPropertiesNameOnly(file) == file.name = ""

\* lines 122-124: the check made before the first await (a part's size is
\* always a number, so typeof file.size !== 'number' is false)
InvalidProperties(file) == file.name = "" \/ file.type = ""

\* (mutant) the text heuristic is asked first, the byte signature second
ResolvedMimeTypeTextFirst(file) ==
    IF file.isText = "true" THEN "text/plain"
    ELSE IF file.sniff # "" THEN file.sniff
    ELSE file.type

\* lines 132-144: the MIME type the allow-list is asked about
ResolvedMimeType(file) ==
    IF file.sniff # "" THEN file.sniff
    ELSE IF file.isText = "true" THEN "text/plain"
    ELSE file.type

\* (mutant) the allow-list is asked about the type the client declared
TypeAllowedAsDeclared(file, allowed) == file.type \in allowed

\* (mutant) a type is accepted only while no other file has been accepted
TypeAllowedOnce(file, allowed) ==
    ResolvedMimeType(file) \in allowed /\ \A k \in DOMAIN task : task[k].upload = 0

\* lines 146-148
TypeAllowed(file, allowed) == ResolvedMimeType(file) \in allowed

\* (mutant) the record carries the type the client declared
ResolvedFileAsDeclared(file) ==
    [fileName |-> file.name, fileSize |-> file.size, mimeType |-> file.type, encoding |-> "binary"]

\* lines 151-157: the File the Upload is resolved with
ResolvedFile(file) ==
    [fileName |-> file.name, fileSize |-> file.size,
     mimeType |-> ResolvedMimeType(file), encoding |-> "binary"]

(***************************************************************************)
(* The request.  `map` and `operations` are form fields: absent, or a text *)
(* that JSON.parse rejects ("invalid"), or one that parses to a scalar, to *)
(* null, to an array or to an object.  A parsed map is its entries in the  *)
(* order Object.keys enumerates them (keys "0", "1", ...: ascending); an   *)
(* entry is a list of paths, or something that is no list.                 *)
(***************************************************************************)
Keys == 0 .. (NumKeys - 1)
KeyName(k) == ToString(k)

Own(k) == <<"variables", "files", KeyName(k)>>
Shared == <<"variables", "f">>
Prefix == <<"variables", "files">>
QueryPath == <<"query">>                      \* a path outside `variables`
Keyed == <<"variables", "files", "x">>        \* an object key where Own(k) has an index

List(paths) == [isList |-> TRUE, paths |-> paths]
NotAList == [isList |-> FALSE, paths |-> <<>>]
Entries(k) == {NotAList, List(<<Own(k)>>), List(<<Own(k), Shared>>), List(<<Prefix>>)}

Field(kind, entries, text) == [kind |-> kind, entries |-> entries, doc |-> text]

\* The texts of the operations field that parse to an object, and
\* JSON.parse of each: a heap whose node 1 is the operations object.
WithVariables == "{query:Q, variables:{f:null, files:[null]}}"
WithoutVariables == "{query:Q}"
EmptyArray == "[]"
JsonParse(text) ==
    IF text = WithVariables
    THEN << Node("obj", Put(Put(EmptyMap, "query", Str("Q")), "variables", Ref(2))),
            Node("obj", Put(Put(EmptyMap, "f", Null), "files", Ref(3))),
            Node("arr", Put(EmptyMap, "0", Null)) >>
    ELSE IF text = WithoutVariables
    THEN << Node("obj", Put(EmptyMap, "query", Str("Q"))) >>
    ELSE << Node("arr", EmptyMap) >>

WellFormedMaps ==
    UNION { { Field("object", e, "") :
                e \in {s \in [1..n -> UNION {Entries(k) : k \in Keys}] :
                          \A j \in 1..n : s[j] \in Entries(j - 1)} } : n \in 0..NumKeys }

BadFields == {Field("absent", <<>>, ""), Field("empty", <<>>, ""), Field("invalid", <<>>, ""),
              Field("scalar", <<>>, ""), Field("null", <<>>, "")}

\* Fields whose text is a JSON array: a map [["variables.files.0"]] or [],
\* whose keys Object.keys enumerates as it does an object's; operations [].
ArrayMaps == {Field("array", <<List(<<Own(0)>>)>>, ""), Field("array", <<>>, "")}
ArrayOps == Field("array", <<>>, EmptyArray)

\* A map whose one path does not start with 'variables.'; and a map whose
\* two paths need the same missing container, one as an array, the other
\* as an object.
OutsideMap == Field("object", <<List(<<QueryPath>>)>>, "")
MixedMap == Field("object", <<List(<<Own(0)>>), List(<<Keyed>>)>>, "")

\* What server.executeOperation does when called: it throws, or returns a
\* response.body of some kind; an incremental body's subsequentResults
\* yields `rest` and then ends, or throws.
Results == {"r1", "r2"}
Body(kind, result, rest, throws) == [kind |-> kind, result |-> result, rest |-> rest, throws |-> throws]
NoBody == Body("none", "", <<>>, FALSE)
Sequences == UNION {[1..n -> Results] : n \in 0..MaxSubsequent}
PlainServer == Body("single", "r1", <<>>, FALSE)
Servers ==
    { Body("throws", "", <<>>, FALSE), Body("other", "", <<>>, FALSE) }
    \cup { Body("single", r, <<>>, FALSE) : r \in Results }
    \cup { Body("incremental", "r0", seq, throws) : seq \in Sequences, throws \in BOOLEAN }

Request(formOk, map, ops, parts, server) ==
    [formOk |-> formOk, map |-> map, operations |-> ops, parts |-> parts, server |-> server]

SomeMap == Field("object", <<List(<<Own(0)>>)>>, "")
SomeOps == Field("object", <<>>, WithVariables)
SomeParts == [k \in Keys |-> IF k = 0 THEN NoteTxt ELSE NoPart]

\* The requests explored: every well-formed map with every assignment of
\* parts to its keys; and, around one plain upload, every malformed field,
\* a failing form-data parse, an operations document without variables,
\* every behaviour of the server, the fields that are JSON arrays, every
\* classification of the one file, a path outside `variables`, and two
\* paths that disagree on the kind of a container to create.
Requests ==
    { Request(TRUE, m, SomeOps, p, PlainServer) :
        m \in WellFormedMaps, p \in [Keys -> FileParts \cup {NoPart}] }
    \cup { Request(TRUE, m, SomeOps, SomeParts, PlainServer) : m \in BadFields }
    \cup { Request(TRUE, SomeMap, o, SomeParts, PlainServer) : o \in BadFields }
    \cup { Request(FALSE, SomeMap, SomeOps, SomeParts, PlainServer) }
    \cup { Request(TRUE, SomeMap, SomeOps, [k \in Keys |-> TextField], PlainServer) }
    \cup { Request(TRUE, SomeMap, Field("object", <<>>, WithoutVariables), SomeParts, PlainServer) }
    \cup { Request(TRUE, SomeMap, SomeOps, SomeParts, sv) : sv \in Servers }
    \cup { Request(TRUE, m, SomeOps, SomeParts, PlainServer) : m \in ArrayMaps }
    \cup { Request(TRUE, SomeMap, ArrayOps, SomeParts, PlainServer) }
    \cup { Request(TRUE, SomeMap, SomeOps, [k \in Keys |-> IF k = 0 THEN f ELSE NoPart], PlainServer) :
              f \in ClassifiedParts }
    \cup { Request(TRUE, OutsideMap, SomeOps, [k \in Keys |-> IF k = 0 THEN f ELSE NoPart], PlainServer) :
              f \in {NoteTxt, EvilPng, NoPart} }
    \cup { Request(TRUE, MixedMap, Field("object", <<>>, WithoutVariables),
                    [k \in Keys |-> IF k < 2 THEN NoteTxt ELSE NoPart], PlainServer) }

(***************************************************************************)
(* sanitizeAndValidateJSON(input): the parsed value, or the error thrown   *)
(***************************************************************************)
JsonParses(field) == field.kind \in {"scalar", "null", "array", "object"}
sanitizeAndValidateJSON(field) ==
    IF ~JsonParses(field) THEN [ok |-> FALSE, error |-> <<"Invalid JSON input", "SyntaxError">>]
    ELSE IF field.kind \in {"scalar", "null"}
         THEN [ok |-> FALSE, error |-> <<"Invalid JSON input", "Invalid JSON structure: not an object.">>]
    ELSE [ok |-> TRUE, error |-> NoError]

(***************************************************************************)
(* The per-key chain processUpload(file).then(graft).catch(graftRejected). *)
(*   st  : "idle"        not launched                                      *)
(*         "reading"     awaiting file.stream() and streamToBuffer         *)
(*         "classifying" awaiting fileTypeFromBuffer / isText              *)
(*         "returned"    the promise a handler waits on has settled        *)
(*         "done"        filePromise has settled                           *)
(*   res : how the promise the next handler sees settled                   *)
(*   upload : the Upload processUpload returned (a heap id), else 0        *)
(*   error  : the rejection reason                                         *)
(*   fp  : filePromise: "pending", "fulfilled" or "rejected"               *)
(***************************************************************************)
IdleTask == [st |-> "idle", res |-> "none", upload |-> 0, error |-> NoError, fp |-> "pending"]

\* the call processUpload(file, allowedTypes), up to its first await
Launch(file) ==
    IF InvalidProperties(file)
    THEN [IdleTask EXCEPT !.st = "returned", !.res = "rejected", !.error = InvalidFileProperties]
    ELSE [IdleTask EXCEPT !.st = "reading"]

\* paths.forEach(path => setValueAtPath(operations, path, value))
RECURSIVE GraftAll(_, _, _, _)
GraftAll(h, paths, i, value) ==
    IF i > Len(paths) THEN h
    ELSE GraftAll(setValueAtPath(h, 1, paths[i], value), paths, i + 1, value)

\* (mutant) one rejected Upload, grafted at every path
GraftRejectedShared(h, paths, i, k, err) ==
    GraftAll(Alloc(h, UploadNode(UploadReject(NewUpload, err), k)), paths, 1, Ref(NewId(h)))

\* lines 221-225: per path, a new Upload, rejected, then grafted
RECURSIVE GraftRejected(_, _, _, _, _)
GraftRejected(h, paths, i, k, err) ==
    IF i > Len(paths) THEN h
    ELSE LET uploadError == UploadReject(NewUpload, err)
             h1 == Alloc(h, UploadNode(uploadError, k))
         IN  GraftRejected(setValueAtPath(h1, 1, paths[i], Ref(NewId(h))), paths, i + 1, k, err)

MapEntries == request.map.entries
NumMapKeys == Len(MapEntries)
MapKeys == 0 .. (NumMapKeys - 1)
files == extractFiles(request.parts)

(***************************************************************************)
(* Lines 199-230: the loop over Object.keys(map), which runs without       *)
(* suspending.  It ends by falling through to the join ("join"), by the    *)
(* oversized return ("413", with the file) or by a throw ("throw").        *)
(***************************************************************************)
\* (mutant) the paths of a missing file are left as they were
GraftMissingSkipped(h, paths) == h

\* lines 202-204: null at every path of a key whose file is missing
GraftMissing(h, paths) == GraftAll(h, paths, 1, Null)

\* (mutant) the size, in bytes, is compared with the limit taken in kilobytes
TooLargeInKilobytes(file) == file.size > maxFileSize * 1024

\* (mutant) a file as large as the limit is over it
TooLargeInclusive(file) == file.size >= maxFileSize

\* (mutant) no size is over the limit
TooLargeNever(file) == FALSE

\* line 208
TooLarge(file) == file.size > maxFileSize

RECURSIVE LoopFrom(_, _, _)
LoopFrom(k, h, t) ==
    IF k >= NumMapKeys THEN [out |-> "join", heap |-> h, task |-> t, file |-> NoPart, error |-> NoError]
    ELSE LET file == files[k]
             entry == MapEntries[k + 1]
         IN  IF file = NoPart
             THEN IF entry.isList
                  THEN LoopFrom(k + 1, GraftMissing(h, entry.paths), t)
                  ELSE [out |-> "throw", heap |-> h, task |-> t, file |-> NoPart,
                        error |-> TypeErrorNotAFunction]
             ELSE IF TooLarge(file)
                  THEN [out |-> "413", heap |-> h, task |-> t, file |-> file, error |-> NoError]
                  ELSE LoopFrom(k + 1, h, [t EXCEPT ![k] = Launch(file)])

(***************************************************************************)
(* Responses: NextResponse.json(body, { status })                          *)
(***************************************************************************)
NoResponse == [status |-> 0, kind |-> "none", message |-> <<>>, initialResult |-> "", subsequentResults |-> <<>>]
ErrorResponse(status, message) ==
    [status |-> status, kind |-> "errors", message |-> message, initialResult |-> "", subsequentResults |-> <<>>]
PayloadTooLarge(file) ==
    ErrorResponse(413, <<"File size is too large. Maximum allowed size is", file.name, ToString(maxFileSize)>>)
InternalError(cause) == ErrorResponse(500, <<"Error processing upload">> \o cause)
UnexpectedFormat == ErrorResponse(500, <<"Unexpected server response format">>)
SingleResponse(result) ==
    [status |-> 200, kind |-> "single", message |-> <<>>, initialResult |-> result, subsequentResults |-> <<>>]
IncrementalResponse(initial, subsequent) ==
    [status |-> 200, kind |-> "incremental", message |-> <<>>, initialResult |-> initial, subsequentResults |-> subsequent]

\* the GraphQLUpload scalar has not been used
NoScalar == [op |-> "none", input |-> Undefined,
             out |-> [kind |-> "none", message |-> ""],
             got |-> [kind |-> "none", file |-> NoFile, error |-> NoError]]

\* no free-standing setValueAtPath call is under way
NoGraft == [path |-> <<>>, value |-> Undefined, n |-> 0, before |-> <<>>, once |-> <<>>]

(***************************************************************************)
(* The initial state: a request has arrived, uploadProcess is called.      *)
(***************************************************************************)
Init ==
    /\ request \in Requests
    /\ pc = "formData"
    /\ heap = <<>>
    /\ task = [k \in Keys |-> IdleTask]
    /\ joined = FALSE
    /\ unhandled = {}
    /\ engine = <<>>
    /\ body = NoBody
    /\ collected = <<>>
    /\ response = NoResponse
    /\ cell = NewUpload
    /\ calls = <<>>
    /\ graft = NoGraft
    /\ buffer = <<>>
    /\ streams = <<>>
    /\ scalar = NoScalar

\* return NextResponse.json(...): uploadProcess is over
Return(r) == pc' = "done" /\ response' = r

\* (mutant) the error list is sent without { status: 500 }
ThrowWithoutStatus(cause) == Return(ErrorResponse(200, <<"Error processing upload">> \o cause))

\* lines 257-260: whatever is thrown inside the try block is caught
Throw(cause) == Return(InternalError(cause))

\* lines 181-182: await request.formData()
FormData ==
    /\ pc = "formData"
    /\ IF request.formOk
       THEN pc' = "parse" /\ response' = response
       ELSE Throw(<<"formData failed">>)
    /\ UNCHANGED <<request, heap, task, joined, unhandled, engine, body, collected, cell, calls, graft, buffer, streams, scalar>>

\* (mutant) the two fields are used as they come, unchecked
ParseWithoutChecks ==
    /\ pc = "parse"
    /\ pc' = "loop"
    /\ response' = response
    /\ LET operations == JsonParse(request.operations.doc)
       IN  heap' = IF Falsy(Get(operations[1].f, "variables"))
                   THEN [Alloc(operations, Node("obj", EmptyMap))
                           EXCEPT ![1].f = Put(@, "variables", Ref(NewId(operations)))]
                   ELSE operations
    /\ UNCHANGED <<request, task, joined, unhandled, engine, body, collected, cell, calls, graft, buffer, streams, scalar>>

\* lines 184-197: the two fields, parsed; operations.variables defaulted
Parse ==
    /\ pc = "parse"
    /\ LET m == request.map
           o == request.operations
       IN  IF m.kind \in {"absent", "empty"} \/ o.kind \in {"absent", "empty"}
           THEN Throw(<<"Missing map or operations in form data.">>) /\ heap' = heap
           ELSE IF ~sanitizeAndValidateJSON(m).ok
           THEN Throw(sanitizeAndValidateJSON(m).error) /\ heap' = heap
           ELSE IF ~sanitizeAndValidateJSON(o).ok
           THEN Throw(sanitizeAndValidateJSON(o).error) /\ heap' = heap
           ELSE /\ pc' = "loop"
                /\ response' = response
                /\ LET operations == JsonParse(o.doc)
                   IN  heap' = IF Falsy(Get(operations[1].f, "variables"))
                               THEN [Alloc(operations, Node("obj", EmptyMap))
                                       EXCEPT ![1].f = Put(@, "variables", Ref(NewId(operations)))]
                               ELSE operations
    /\ UNCHANGED <<request, task, joined, unhandled, engine, body, collected, cell, calls, graft, buffer, streams, scalar>>

\* (mutant) the 413 response is built but not returned: the loop's exit
\* falls through to the join
LoopWithoutReturn ==
    /\ pc = "loop"
    /\ LET r == LoopFrom(0, heap, task)
       IN  /\ heap' = r.heap
           /\ task' = r.task
           /\ IF r.out = "join" THEN pc' = "join" /\ joined' = TRUE /\ response' = response
              ELSE IF r.out = "413"
                   THEN pc' = "join" /\ joined' = TRUE /\ response' = PayloadTooLarge(r.file)
              ELSE Throw(r.error) /\ joined' = joined
    /\ UNCHANGED <<request, unhandled, engine, body, collected, cell, calls, graft, buffer, streams, scalar>>

\* lines 199-233: the loop, then Promise.all(fileProcessingPromises)
Loop ==
    /\ pc = "loop"
    /\ LET r == LoopFrom(0, heap, task)
       IN  /\ heap' = r.heap
           /\ task' = r.task
           /\ IF r.out = "join" THEN pc' = "join" /\ joined' = TRUE /\ response' = response
              ELSE IF r.out = "413" THEN Return(PayloadTooLarge(r.file)) /\ joined' = joined
              ELSE Throw(r.error) /\ joined' = joined
    /\ UNCHANGED <<request, unhandled, engine, body, collected, cell, calls, graft, buffer, streams, scalar>>

(***************************************************************************)
(* The steps of a per-key chain.  They are taken whenever the event loop   *)
(* gets to them, whether or not uploadProcess has returned meanwhile.      *)
(***************************************************************************)
\* lines 126-127: the stream is read to its end
ReadDone(k) ==
    /\ task[k].st = "reading"
    /\ task' = [task EXCEPT ![k].st = "classifying"]
    /\ UNCHANGED <<request, pc, heap, joined, unhandled, engine, body, collected, response, cell, calls, graft, buffer, streams, scalar>>

\* lines 129-158: the type is resolved and checked; the Upload is created
\* and resolved, and processUpload returns it
ClassifyDone(k) ==
    /\ task[k].st = "classifying"
    /\ LET file == files[k]
       IN  IF TypeAllowed(file, allowedTypes)
           THEN /\ heap' = Alloc(heap, UploadNode(UploadResolve(NewUpload, ResolvedFile(file)), k))
                /\ task' = [task EXCEPT ![k].st = "returned", ![k].res = "fulfilled",
                                        ![k].upload = NewId(heap)]
           ELSE /\ heap' = heap
                /\ task' = [task EXCEPT ![k].st = "returned", ![k].res = "rejected",
                                        ![k].error = NotAllowed(ResolvedMimeType(file))]
    /\ UNCHANGED <<request, pc, joined, unhandled, engine, body, collected, response, cell, calls, graft, buffer, streams, scalar>>

\* lines 215-219: the .then handler
ThenHandler(k) ==
    /\ task[k].st = "returned"
    /\ task[k].res = "fulfilled"
    /\ LET variablePaths == MapEntries[k + 1]
       IN  IF variablePaths.isList
           THEN /\ heap' = GraftAll(heap, variablePaths.paths, 1, Ref(task[k].upload))
                /\ task' = [task EXCEPT ![k].st = "done", ![k].fp = "fulfilled"]
           ELSE /\ heap' = heap
                /\ task' = [task EXCEPT ![k].res = "rejected", ![k].error = TypeErrorNotAFunction]
    /\ UNCHANGED <<request, pc, joined, unhandled, engine, body, collected, response, cell, calls, graft, buffer, streams, scalar>>

\* lines 220-227: the .catch handler, which throws again: filePromise is
\* rejected, and nothing handles it unless Promise.all was called on it
CatchHandler(k) ==
    /\ task[k].st = "returned"
    /\ task[k].res = "rejected"
    /\ LET variablePaths == MapEntries[k + 1]
           failure == FailedToProcess(files[k].name, task[k].error)
       IN  IF variablePaths.isList
           THEN /\ heap' = GraftRejected(heap, variablePaths.paths, 1, k, failure)
                /\ task' = [task EXCEPT ![k].st = "done", ![k].fp = "rejected", ![k].error = failure]
           ELSE /\ heap' = heap
                /\ task' = [task EXCEPT ![k].st = "done", ![k].fp = "rejected",
                                        ![k].error = TypeErrorNotAFunction]
    /\ unhandled' = IF joined THEN unhandled ELSE unhandled \cup {k}
    /\ UNCHANGED <<request, pc, joined, engine, body, collected, response, cell, calls, graft, buffer, streams, scalar>>

Launched == {k \in Keys : task[k].st # "idle"}

\* (mutant) the join goes on only once every promise is fulfilled
AllFulfilled == \A k \in Launched : task[k].fp = "fulfilled"

\* Promise.all settles: fulfilled once every promise is, rejected as soon
\* as one is
AllSettles ==
    \/ \A k \in Launched : task[k].fp = "fulfilled"
    \/ \E k \in Launched : task[k].fp = "rejected"

\* (mutant) the join is awaited once more after the engine was called
JoinAndExecuteAgain ==
    /\ pc = "join"
    /\ AllSettles
    /\ engine' = Append(engine, [query |-> Get(heap[1].f, "query"),
                                 variables |-> Get(heap[1].f, "variables"),
                                 heap |-> heap])
    /\ pc' = IF engine = <<>> THEN "join" ELSE "engine"
    /\ UNCHANGED <<request, heap, task, joined, unhandled, body, collected, response, cell, calls, graft, buffer, streams, scalar>>

\* lines 232-241: the await of Promise.all returns or throws (the throw is
\* caught and dropped), and server.executeOperation is called
JoinAndExecute ==
    /\ pc = "join"
    /\ AllSettles
    /\ engine' = Append(engine, [query |-> Get(heap[1].f, "query"),
                                 variables |-> Get(heap[1].f, "variables"),
                                 heap |-> heap])
    /\ pc' = "engine"
    /\ UNCHANGED <<request, heap, task, joined, unhandled, body, collected, response, cell, calls, graft, buffer, streams, scalar>>

\* (mutant) a body of another kind is answered like an empty single result
EngineOtherForwarded ==
    /\ pc = "engine"
    /\ request.server.kind = "other"
    /\ body' = request.server
    /\ Return(SingleResponse(request.server.result))
    /\ UNCHANGED <<request, heap, task, joined, unhandled, engine, collected, cell, calls, graft, buffer, streams, scalar>>

\* lines 238-256: server.executeOperation settles
EngineThrows ==
    /\ pc = "engine"
    /\ request.server.kind = "throws"
    /\ Throw(<<"executeOperation failed">>)
    /\ UNCHANGED <<request, heap, task, joined, unhandled, engine, body, collected, cell, calls, graft, buffer, streams, scalar>>

EngineSingle ==
    /\ pc = "engine"
    /\ request.server.kind = "single"
    /\ body' = request.server
    /\ Return(SingleResponse(request.server.result))
    /\ UNCHANGED <<request, heap, task, joined, unhandled, engine, collected, cell, calls, graft, buffer, streams, scalar>>

EngineIncremental ==
    /\ pc = "engine"
    /\ request.server.kind = "incremental"
    /\ body' = request.server
    /\ pc' = "drain"
    /\ UNCHANGED <<request, heap, task, joined, unhandled, engine, collected, response, cell, calls, graft, buffer, streams, scalar>>

EngineOther ==
    /\ pc = "engine"
    /\ request.server.kind = "other"
    /\ body' = request.server
    /\ Return(UnexpectedFormat)
    /\ UNCHANGED <<request, heap, task, joined, unhandled, engine, collected, cell, calls, graft, buffer, streams, scalar>>

\* (mutant) each element is put in front of the ones collected so far
DrainNextInFront ==
    /\ pc = "drain"
    /\ body.rest # <<>>
    /\ collected' = <<Head(body.rest)>> \o collected
    /\ body' = [body EXCEPT !.rest = Tail(@)]
    /\ UNCHANGED <<request, pc, heap, task, joined, unhandled, engine, response, cell, calls, graft, buffer, streams, scalar>>

\* lines 248-250: one turn of the for await loop
DrainNext ==
    /\ pc = "drain"
    /\ body.rest # <<>>
    /\ collected' = Append(collected, Head(body.rest))
    /\ body' = [body EXCEPT !.rest = Tail(@)]
    /\ UNCHANGED <<request, pc, heap, task, joined, unhandled, engine, response, cell, calls, graft, buffer, streams, scalar>>

\* lines 251-254, or the sequence throws and line 257 catches
DrainEnd ==
    /\ pc = "drain"
    /\ body.rest = <<>>
    /\ IF body.throws
       THEN Throw(<<"subsequentResults failed">>)
       ELSE Return(IncrementalResponse(body.result, collected))
    /\ UNCHANGED <<request, heap, task, joined, unhandled, engine, body, collected, cell, calls, graft, buffer, streams, scalar>>

Next ==
    \/ FormData
    \/ Parse
    \/ Loop
    \/ \E k \in Keys : ReadDone(k)
    \/ \E k \in Keys : ClassifyDone(k)
    \/ \E k \in Keys : ThenHandler(k)
    \/ \E k \in Keys : CatchHandler(k)
    \/ JoinAndExecute
    \/ EngineThrows
    \/ EngineSingle
    \/ EngineIncremental
    \/ EngineOther
    \/ DrainNext
    \/ DrainEnd

Spec == Init /\ [][Next]_vars

(***************************************************************************)
(* The same program under the scheduling the event loop gives it: a step   *)
(* that is ready is eventually run.  Every file's stream ends, the         *)
(* classification libraries answer, the engine call settles, and an        *)
(* incremental sequence is finite.                                         *)
(***************************************************************************)
\* The requests followed to their end: those whose map has at most two
\* keys, every part sent being one the map can name.
FairRequests ==
    { r \in Requests :
        /\ Len(r.map.entries) <= 2
        /\ \A k \in Keys : k >= 2 => r.parts[k] = NoPart }

InitFair == Init /\ request \in FairRequests

FairSpec == InitFair /\ [][Next]_vars /\ WF_vars(Next)

(***************************************************************************)
(* A free-standing Upload whose resolve and reject are called by a client, *)
(* in any order, any number of times up to MaxCalls.                       *)
(***************************************************************************)
SomeFiles ==
    { [fileName |-> n, fileSize |-> 1, mimeType |-> "text/plain", encoding |-> "binary"] :
        n \in {"a.txt", "b.txt"} }
SomeErrors == {<<"e1">>, <<"e2">>}

CallResolve(f) ==
    /\ Len(calls) < MaxCalls
    /\ cell' = UploadResolve(cell, f)
    /\ calls' = Append(calls, [op |-> "resolve", file |-> f, error |-> NoError])
    /\ UNCHANGED <<request, pc, heap, task, joined, unhandled, engine, body, collected, response, graft, buffer, streams, scalar>>

CallReject(e) ==
    /\ Len(calls) < MaxCalls
    /\ cell' = UploadReject(cell, e)
    /\ calls' = Append(calls, [op |-> "reject", file |-> NoFile, error |-> e])
    /\ UNCHANGED <<request, pc, heap, task, joined, unhandled, engine, body, collected, response, graft, buffer, streams, scalar>>

InitUpload ==
    /\ request = Request(TRUE, SomeMap, SomeOps, SomeParts, PlainServer)
    /\ pc = "formData"
    /\ heap = <<>>
    /\ task = [k \in Keys |-> IdleTask]
    /\ joined = FALSE
    /\ unhandled = {}
    /\ engine = <<>>
    /\ body = NoBody
    /\ collected = <<>>
    /\ response = NoResponse
    /\ cell = NewUpload
    /\ calls = <<>>
    /\ graft = NoGraft
    /\ buffer = <<>>
    /\ streams = <<>>
    /\ scalar = NoScalar

NextUpload ==
    \/ \E f \in SomeFiles : CallResolve(f)
    \/ \E e \in SomeErrors : CallReject(e)

SpecUpload == InitUpload /\ [][NextUpload]_vars

(***************************************************************************)
(* The GraphQLUpload scalar, used on its own: one of its three functions   *)
(* is called with a value, and a resolver awaits what parseValue returned. *)
(* The Upload instance among the values is `cell`, settled by its client.  *)
(***************************************************************************)
TheUpload == [t |-> "upload", s |-> "", id |-> 0]      \* the Upload instance
ThePromise == [t |-> "promise", s |-> "", id |-> 0]    \* its promise, passed bare
TheFile == [t |-> "file", s |-> "", id |-> 0]          \* a File object, passed bare
ScalarInputs == {TheUpload, ThePromise, TheFile, Null, Undefined, Str("x"), Ref(1)}

\* value instanceof Upload
InstanceofUpload(value) == value = TheUpload

\* (mutant) the error is thrown instead of returned
parseValueThrowing(value) ==
    IF InstanceofUpload(value)
    THEN [kind |-> "promise", message |-> ""]
    ELSE [kind |-> "thrown", message |-> "Upload value invalid."]

\* line 52
parseValue(value) ==
    IF InstanceofUpload(value)
    THEN [kind |-> "promise", message |-> ""]
    ELSE [kind |-> "returned", message |-> "Upload value invalid."]

\* line 51
parseLiteral(node) == [kind |-> "thrown", message |-> "Upload literal unsupported."]

\* line 53
serialize(value) == [kind |-> "thrown", message |-> "Upload serialization unsupported."]

CallParseValue(value) ==
    /\ scalar.op = "none"
    /\ scalar' = [scalar EXCEPT !.op = "parseValue", !.input = value, !.out = parseValue(value)]
    /\ UNCHANGED <<request, pc, heap, task, joined, unhandled, engine, body, collected, response, cell, calls,
                   graft, buffer, streams>>

CallParseLiteral(node) ==
    /\ scalar.op = "none"
    /\ scalar' = [scalar EXCEPT !.op = "parseLiteral", !.input = node, !.out = parseLiteral(node)]
    /\ UNCHANGED <<request, pc, heap, task, joined, unhandled, engine, body, collected, response, cell, calls,
                   graft, buffer, streams>>

CallSerialize(value) ==
    /\ scalar.op = "none"
    /\ scalar' = [scalar EXCEPT !.op = "serialize", !.input = value, !.out = serialize(value)]
    /\ UNCHANGED <<request, pc, heap, task, joined, unhandled, engine, body, collected, response, cell, calls,
                   graft, buffer, streams>>

\* const { ... } = await file, in a resolver: the await goes on once the
\* promise is settled, with its value or by throwing its reason
Await ==
    /\ scalar.out.kind = "promise"
    /\ scalar.got.kind = "none"
    /\ cell.state # "pending"
    /\ scalar' = [scalar EXCEPT !.got =
                     IF cell.state = "fulfilled"
                     THEN [kind |-> "value", file |-> cell.value, error |-> NoError]
                     ELSE [kind |-> "thrown", file |-> NoFile, error |-> cell.error]]
    /\ UNCHANGED <<request, pc, heap, task, joined, unhandled, engine, body, collected, response, cell, calls,
                   graft, buffer, streams>>

NextScalar ==
    \/ \E f \in SomeFiles : CallResolve(f)
    \/ \E e \in SomeErrors : CallReject(e)
    \/ \E value \in ScalarInputs : CallParseValue(value)
    \/ \E node \in ScalarInputs : CallParseLiteral(node)
    \/ \E value \in ScalarInputs : CallSerialize(value)
    \/ Await

SpecScalar == InitUpload /\ [][NextScalar]_vars


(***************************************************************************)
(* createReadStream of a resolved file: () => bufferToStream(buffer), over *)
(* the buffer processUpload read the file into.  A stream is what was      *)
(* pushed and not yet read (`queue`), what its consumer has got so far,    *)
(* and whether the consumer has seen its end.                              *)
(***************************************************************************)
MaxStreams == 3       \* calls of createReadStream on one resolved file

Bytes == {"a", "b"}
Buffers == UNION {[1..n -> Bytes] : n \in 0..maxFileSize}

\* (mutant) the chunk is handed out once: a stream made after another has
\* delivered it has nothing to deliver
bufferToStreamDrained(b) ==
    [queue |-> IF b = <<>> \/ \E i \in 1..Len(streams) : streams[i].got # <<>> THEN <<>> ELSE <<b>>,
     got |-> <<>>, ended |-> FALSE]

\* lines 80-86: new Readable(); push(buffer); push(null).  The push of an
\* empty buffer queues nothing.
bufferToStream(b) ==
    [queue |-> IF b = <<>> THEN <<>> ELSE <<b>>, got |-> <<>>, ended |-> FALSE]

CreateReadStream ==
    /\ Len(streams) < MaxStreams
    /\ streams' = Append(streams, bufferToStream(buffer))
    /\ UNCHANGED <<request, pc, heap, task, joined, unhandled, engine, body, collected, response, cell, calls,
                   graft, buffer, scalar>>

\* the consumer of stream i reads: the queued chunk, or the end
ReadStream(i) ==
    /\ i \in 1..Len(streams)
    /\ ~streams[i].ended
    /\ streams' = [streams EXCEPT ![i] =
                      IF @.queue # <<>>
                      THEN [@ EXCEPT !.got = @ \o Head(streams[i].queue), !.queue = Tail(@)]
                      ELSE [@ EXCEPT !.ended = TRUE]]
    /\ UNCHANGED <<request, pc, heap, task, joined, unhandled, engine, body, collected, response, cell, calls,
                   graft, buffer, scalar>>

InitStream ==
    /\ request = Request(TRUE, SomeMap, SomeOps, SomeParts, PlainServer)
    /\ pc = "formData"
    /\ heap = <<>>
    /\ task = [k \in Keys |-> IdleTask]
    /\ joined = FALSE
    /\ unhandled = {}
    /\ engine = <<>>
    /\ body = NoBody
    /\ collected = <<>>
    /\ response = NoResponse
    /\ cell = NewUpload
    /\ calls = <<>>
    /\ graft = NoGraft
    /\ buffer \in Buffers
    /\ streams = <<>>
    /\ scalar = NoScalar

NextStream ==
    \/ CreateReadStream
    \/ \E i \in 1..MaxStreams : ReadStream(i)

SpecStream == InitStream /\ [][NextStream]_vars

(***************************************************************************)
(* setValueAtPath on its own: a document, a path and a value, and the call *)
(* made once and again.                                                    *)
(***************************************************************************)
MaxGrafts == 2        \* calls of setValueAtPath with the same arguments

Documents ==
    { << Node("obj", EmptyMap) >>,
      << Node("obj", Put(EmptyMap, "a", Str("s"))) >>,
      << Node("obj", Put(EmptyMap, "a", Null)) >>,
      << Node("obj", Put(EmptyMap, "a", Ref(2))), Node("arr", EmptyMap) >>,
      << Node("obj", Put(EmptyMap, "a", Ref(2))), Node("obj", Put(EmptyMap, "b", Ref(3))),
         Node("arr", Put(EmptyMap, "0", Ref(4))), Node("obj", Put(EmptyMap, "c", Str("y"))) >>,
      JsonParse(WithVariables) }

GraftPaths ==
    { <<"a", "b", "0", "c">>, <<"a">>, <<"a", "b">>, <<"a", "0">>, <<"a", "0", "1">>,
      <<"variables", "files", "0">>, <<"variables", "files", "1", "x">> }

\* a string, null, and an object: the document itself
GraftValues == {Str("x"), Null, Ref(1)}

Graft ==
    /\ graft.path # <<>>
    /\ graft.n < MaxGrafts
    /\ heap' = setValueAtPath(heap, 1, graft.path, graft.value)
    /\ graft' = [graft EXCEPT !.n = @ + 1, !.once = IF graft.n = 0 THEN heap' ELSE @]
    /\ UNCHANGED <<request, pc, task, joined, unhandled, engine, body, collected, response, cell, calls,
                   buffer, streams, scalar>>

InitGraft ==
    /\ request = Request(TRUE, SomeMap, SomeOps, SomeParts, PlainServer)
    /\ pc = "formData"
    /\ heap \in Documents
    /\ task = [k \in Keys |-> IdleTask]
    /\ joined = FALSE
    /\ unhandled = {}
    /\ engine = <<>>
    /\ body = NoBody
    /\ collected = <<>>
    /\ response = NoResponse
    /\ cell = NewUpload
    /\ calls = <<>>
    /\ graft \in {[path |-> p, value |-> v, n |-> 0, before |-> heap, once |-> <<>>] :
                    p \in GraftPaths, v \in GraftValues}
    /\ buffer = <<>>
    /\ streams = <<>>
    /\ scalar = NoScalar

NextGraft == Graft

SpecGraft == InitGraft /\ [][NextGraft]_vars

(***************************************************************************)
(* Vocabulary of the properties.                                           *)
(***************************************************************************)
Paths(k) == MapEntries[k + 1].paths
Present(k) == k \in MapKeys /\ files[k] # NoPart
Missing(k) == k \in MapKeys /\ files[k] = NoPart
Oversized(k) == Present(k) /\ files[k].size > maxFileSize
FailsClassification(k) ==
    Present(k) /\ (InvalidProperties(files[k]) \/ ~TypeAllowed(files[k], allowedTypes))
InFlight(k) == task[k].st \in {"reading", "classifying"}

FieldsParse ==
    /\ request.formOk
    /\ request.map.kind \in {"object", "array"}
    /\ request.operations.kind \in {"object", "array"}
WellFormed == FieldsParse /\ \A k \in MapKeys : MapEntries[k + 1].isList

IsPrefix(a, b) == Len(a) <= Len(b) /\ SubSeq(b, 1, Len(a)) = a
Overlap(a, b) == IsPrefix(a, b) \/ IsPrefix(b, a)
Listed == UNION {{<<k, j>> : j \in 1..Len(Paths(k))} : k \in MapKeys}
\* the path is listed once, and no other listed path is a prefix or an extension of it
Alone(k, j) == \A x \in Listed : x # <<k, j>> => ~Overlap(Paths(k)[j], Paths(x[1])[x[2]])
DisjointPaths == \A x \in Listed : Alone(x[1], x[2])

IsUpload(h, v) == v.t = "ref" /\ h[v.id].kind = "upload"
HoldsSettledUpload(h, path) ==
    LET v == ValueAtPath(h, 1, path)
    IN  IsUpload(h, v) /\ h[v.id].cell.state \in {"fulfilled", "rejected"}
HoldsResolved(h, path, file) ==
    LET v == ValueAtPath(h, 1, path)
    IN  IsUpload(h, v) /\ h[v.id].cell.state = "fulfilled" /\ h[v.id].cell.value = file
HoldsRejected(h, path, error) ==
    LET v == ValueAtPath(h, 1, path)
    IN  IsUpload(h, v) /\ h[v.id].cell.state = "rejected" /\ h[v.id].cell.error = error

EngineInvoked == engine # <<>>
Invocation == engine[1]
Returned == pc = "done"

(***************************************************************************)
(* C1: server.executeOperation is not invoked until every launched per-key *)
(* task has reached a terminal state (its resolved or rejected Upload has  *)
(* been grafted), also when one task fails while siblings are in flight.   *)
(***************************************************************************)
C1_EngineAfterEveryTask ==
    [][engine' # engine => \A k \in Launched : task[k].st = "done"]_vars

(***************************************************************************)
(* C2: for a well-formed request with no oversized file, when the engine   *)
(* is invoked and when uploadProcess returns, every path listed under a    *)
(* key whose file is present holds a settled Upload.  (Stated for maps     *)
(* whose paths do not overlap.)                                            *)
(***************************************************************************)
EveryPresentPathSettled(h) ==
    \A k \in MapKeys : Present(k) =>
        \A j \in 1..Len(Paths(k)) : HoldsSettledUpload(h, Paths(k)[j])

C2_SettledAtEngineAndReturn ==
    (WellFormed /\ DisjointPaths /\ \A k \in MapKeys : ~Oversized(k)) =>
        /\ EngineInvoked => EveryPresentPathSettled(Invocation.heap)
        /\ Returned => EveryPresentPathSettled(heap)

(***************************************************************************)
(* C3: when classification fails for one key among N present files, the    *)
(* engine is invoked with that key's paths holding an Upload rejected with *)
(* 'Failed to process file <name>: <cause>' and every other key's paths    *)
(* holding an Upload resolved with that key's own file.  (Stated for maps  *)
(* whose paths do not overlap.)                                            *)
(***************************************************************************)
FailureCause(k) ==
    IF InvalidProperties(files[k]) THEN InvalidFileProperties
    ELSE NotAllowed(ResolvedMimeType(files[k]))

OneFailsAmongPresent ==
    /\ WellFormed /\ DisjointPaths
    /\ \A k \in MapKeys : Present(k) /\ ~Oversized(k)
    /\ Cardinality({k \in MapKeys : FailsClassification(k)}) = 1

C3_FailureContained ==
    (OneFailsAmongPresent /\ EngineInvoked) =>
        \A k \in MapKeys : \A j \in 1..Len(Paths(k)) :
            IF FailsClassification(k)
            THEN HoldsRejected(Invocation.heap, Paths(k)[j],
                               FailedToProcess(files[k].name, FailureCause(k)))
            ELSE HoldsResolved(Invocation.heap, Paths(k)[j], ResolvedFile(files[k]))

(***************************************************************************)
(* C4 (as claimed): if the file of any map key is larger than maxFileSize, *)
(* uploadProcess returns status 413 with an {errors:[{message}]} body      *)
(* naming the maximum size, and the engine is never invoked, whatever the  *)
(* position of the key.                                                    *)
(***************************************************************************)
SomeOversized == FieldsParse /\ \E k \in MapKeys : Oversized(k)

C4_OversizedAlways413 ==
    SomeOversized =>
        /\ ~EngineInvoked
        /\ Returned => \E k \in MapKeys : Oversized(k) /\ response = PayloadTooLarge(files[k])

(***************************************************************************)
(* C4 (amended): with an oversized file under some map key the engine is   *)
(* never invoked, and uploadProcess returns 413 naming the first oversized *)
(* file and the maximum size, unless a key enumerated before it has no     *)
(* file and an entry that is not a list: then the loop throws first and    *)
(* the response is the 500 error list.                                     *)
(***************************************************************************)
FirstOversized == CHOOSE k \in MapKeys : Oversized(k) /\ \A j \in MapKeys : Oversized(j) => k <= j
ThrowsInLoop(k) == Missing(k) /\ ~MapEntries[k + 1].isList

C4_Oversized413UnlessEarlierThrow ==
    SomeOversized =>
        /\ ~EngineInvoked
        /\ Returned =>
              IF \E j \in MapKeys : j < FirstOversized /\ ThrowsInLoop(j)
              THEN response = InternalError(TypeErrorNotAFunction)
              ELSE response = PayloadTooLarge(files[FirstOversized])

C4_Witness ==
    /\ Returned /\ response.status = 413
    /\ FirstOversized > 0
    /\ \E k \in MapKeys : InFlight(k)

(***************************************************************************)
(* C5 (as claimed): for every map key with no matching file part, null is  *)
(* grafted at every path of the key, and at engine invocation each of      *)
(* those paths holds null.                                                 *)
(***************************************************************************)
C5_MissingPathsNull ==
    EngineInvoked =>
        \A k \in MapKeys : Missing(k) =>
            \A j \in 1..Len(Paths(k)) : ValueAtPath(Invocation.heap, 1, Paths(k)[j]) = Null

(***************************************************************************)
(* C5 (amended): a missing file never ends the request (only an oversized  *)
(* file or a missing key's entry that is no list does, before the engine), *)
(* and at engine invocation every path of a missing key holds null,        *)
(* provided no other listed path equals, prefixes or extends it.           *)
(***************************************************************************)
C5_MissingPathsNullUnlessOverlapped ==
    /\ EngineInvoked =>
          \A k \in MapKeys : Missing(k) =>
              \A j \in 1..Len(Paths(k)) :
                  Alone(k, j) => ValueAtPath(Invocation.heap, 1, Paths(k)[j]) = Null
    /\ (FieldsParse /\ Returned /\ ~EngineInvoked) =>
          \E k \in MapKeys : Oversized(k) \/ ThrowsInLoop(k)

C5_Witness ==
    /\ EngineInvoked
    /\ \E k \in MapKeys :
          /\ Missing(k) /\ Paths(k) = <<Own(k)>>
          /\ ValueAtPath(JsonParse(request.operations.doc), 1, Own(k)) = Undefined
    /\ \E k \in MapKeys : task[k].st = "done"

(***************************************************************************)
(* C6: once a first call of resolve or reject has taken effect on an       *)
(* Upload, every later call is a no-op: the promise outcome and the `file` *)
(* field stay as the first settlement left them (`file` is set only if the *)
(* cell was resolved, and only to the first resolved file).                *)
(***************************************************************************)
C6_FirstSettlementWins ==
    calls # <<>> =>
        IF calls[1].op = "resolve"
        THEN cell.state = "fulfilled" /\ cell.value = calls[1].file /\ cell.file = calls[1].file
        ELSE cell.state = "rejected" /\ cell.error = calls[1].error /\ cell.file = NoFile

Uploads == {n \in 1..Len(heap) : heap[n].kind = "upload"}
Referenced(n) == \E m \in 1..Len(heap) : \E key \in DOMAIN heap[m].f : heap[m].f[key] = Ref(n)

C8_NoUnhandledRejection ==
    /\ unhandled = {}
    /\ \A n \in Uploads : heap[n].cell.handled

IsInternalError(r) ==
    r.status = 500 /\ r.kind = "errors" /\ r.message[1] = "Error processing upload"

RaisedInMainFlow ==
    \/ ~FieldsParse
    \/ \E k \in MapKeys : ThrowsInLoop(k) /\ \A j \in MapKeys : j < k => ~Oversized(j)
    \/ EngineInvoked /\ request.server.kind = "throws"
    \/ EngineInvoked /\ request.server.kind = "incremental" /\ request.server.throws
RaisedInHandler == \E k \in Keys : task[k].error = TypeErrorNotAFunction

C10_EveryFailureIs500 ==
    Returned =>
        /\ response # NoResponse
        /\ (RaisedInMainFlow \/ (EngineInvoked /\ RaisedInHandler)) => IsInternalError(response)

(***************************************************************************)
(* C10 (amended): uploadProcess always returns a response; for every       *)
(* failure raised in its own flow (form-data parsing, missing or malformed *)
(* map/operations, a non-list entry under a key whose file is missing, the *)
(* engine throwing, the incremental sequence throwing) it is the 500 error *)
(* list.  A non-list entry under a key whose file is present throws inside *)
(* that key's handlers instead, is dropped at the join, and the request    *)
(* goes on to the engine.                                                  *)
(***************************************************************************)
C10_MainFlowFailureIs500 ==
    /\ pc \in {"formData", "parse", "loop", "join", "engine", "drain", "done"}
    /\ Returned <=> response # NoResponse
    /\ (Returned /\ RaisedInMainFlow) => IsInternalError(response)
    /\ (pc = "join" /\ \E k \in Keys : task[k].st = "done" /\ task[k].error = TypeErrorNotAFunction)
          => ENABLED JoinAndExecute

C10_Witness ==
    /\ Returned
    /\ EngineInvoked /\ request.server.kind = "incremental" /\ request.server.throws
    /\ collected # <<>>

(***************************************************************************)
(* C11: if the `map` or the `operations` field is absent, empty or not     *)
(* parsable, uploadProcess returns the {errors:[{message}]} response with  *)
(* no partial processing: no document is built and nothing is grafted, no  *)
(* file is read or classified, and the engine is never invoked.            *)
(***************************************************************************)
Unusable(field) == field.kind \in {"absent", "empty", "invalid"}

C11_MalformedNoPartialProcessing ==
    (request.formOk /\ (Unusable(request.map) \/ Unusable(request.operations))) =>
        /\ pc \in {"formData", "parse", "done"}
        /\ heap = <<>>
        /\ \A k \in Keys : task[k] = IdleTask
        /\ ~EngineInvoked
        /\ Returned => IsInternalError(response)

C11_Witness ==
    /\ Returned
    /\ request.operations.kind = "invalid"
    /\ request.map = SomeMap /\ files[0] = NoteTxt

(***************************************************************************)
(* C12: sanitizeAndValidateJSON accepts its input if and only if it parses *)
(* to a JSON object; an input that parses to an array, to null or to a     *)
(* scalar, or that is not JSON, fails, so that a request whose `map` or    *)
(* `operations` is a JSON array fails as malformed: uploadProcess gets     *)
(* past the two calls only when both fields are objects.                   *)
(***************************************************************************)
C12_OnlyObjectsAccepted ==
    (request.formOk /\ pc \notin {"formData", "parse"}) =>
        LET accepted == heap # <<>>       \* both calls returned: the document was built
        IN  accepted <=> (request.map.kind = "object" /\ request.operations.kind = "object")

(***************************************************************************)
(* C13: when the engine returns an incremental result, uploadProcess       *)
(* produces its response only once the subsequentResults sequence is       *)
(* exhausted; the response's subsequentResults are the elements the        *)
(* sequence yielded, each once and in the order yielded, next to the       *)
(* unchanged initialResult.                                                *)
(***************************************************************************)
C13_DrainedInOrder ==
    body.kind = "incremental" =>
        /\ collected \o body.rest = request.server.rest
        /\ body.rest # <<>> => ~Returned
        /\ (Returned /\ ~request.server.throws) =>
              response = IncrementalResponse(request.server.result, request.server.rest)

C13_Witness ==
    /\ Returned
    /\ response.kind = "incremental"
    /\ Len(response.subsequentResults) = MaxSubsequent
    /\ response.subsequentResults[1] # response.subsequentResults[2]

(***************************************************************************)
(* C14: when the engine's response body is of kind 'single', its           *)
(* singleResult is forwarded unchanged as the response body; when the kind *)
(* is neither 'single' nor 'incremental', uploadProcess returns status 500 *)
(* with an {errors:[{message}]} body.                                      *)
(***************************************************************************)
C14_SingleForwardedOtherIs500 ==
    Returned =>
        /\ body.kind = "single" =>
              /\ response.status = 200 /\ response.kind = "single"
              /\ response.initialResult = request.server.result
        /\ body.kind = "other" =>
              /\ response.status = 500 /\ response.kind = "errors"
              /\ response.message = <<"Unexpected server response format">>

C14_Witness ==
    /\ Returned /\ EngineInvoked
    /\ body.kind = "other"
    /\ response.status = 500

(***************************************************************************)
(* C15: processUpload resolves the MIME type by strict precedence, for     *)
(* every combination of inputs: the byte-signature type when sniffing      *)
(* finds one, whatever the declared type and the text heuristic say;       *)
(* otherwise 'text/plain' when the heuristic answers that the content is   *)
(* text; otherwise (it answers binary, is undecided, or fails) the         *)
(* declared type.  The resolved type is the one the resolved file carries  *)
(* and the one the allow-list's error names.                               *)
(***************************************************************************)
Classified(k) ==
    /\ Present(k) /\ ~InvalidProperties(files[k])
    /\ task[k].st \in {"returned", "done"}

ByPrecedence(file) ==
    CASE file.sniff # "" -> file.sniff
      [] file.sniff = "" /\ file.isText = "true" -> "text/plain"
      [] file.sniff = "" /\ file.isText \in {"false", "null", "throws"} -> file.type

C15_MimePrecedence ==
    \A k \in MapKeys : Classified(k) =>
        LET mime == ByPrecedence(files[k])
        IN  IF task[k].upload # 0
            THEN heap[task[k].upload].cell.value.mimeType = mime
            ELSE \/ task[k].error = NotAllowed(mime)
                 \/ task[k].error = FailedToProcess(files[k].name, NotAllowed(mime))
                 \/ ~MapEntries[k + 1].isList /\ task[k].error = TypeErrorNotAFunction

C15_Witness ==
    \E k \in MapKeys :
        /\ Classified(k) /\ task[k].upload # 0
        /\ files[k].sniff = "" /\ files[k].isText = "throws"
        /\ heap[task[k].upload].cell.value.mimeType = "image/png"

(***************************************************************************)
(* C16: processUpload accepts a file if and only if its resolved MIME type *)
(* (not the type the client declared) is in allowedTypes: a file declared  *)
(* with an allowed type whose sniffed or heuristic type is not allowed is  *)
(* rejected, and no resolved Upload carries a mimeType outside             *)
(* allowedTypes.                                                           *)
(***************************************************************************)
C16_AcceptedIffResolvedTypeAllowed ==
    /\ \A k \in MapKeys : Classified(k) =>
          (task[k].upload # 0 <=> ByPrecedence(files[k]) \in allowedTypes)
    /\ \A n \in Uploads :
          heap[n].cell.state = "fulfilled" => heap[n].cell.value.mimeType \in allowedTypes

C16_Witness ==
    \E k \in MapKeys :
        /\ Classified(k) /\ task[k].st = "done"
        /\ files[k].type \in allowedTypes /\ files[k].isText = "true"
        /\ files[k].sniff = "application/x-msdownload"
        /\ HoldsRejected(heap, Own(k), FailedToProcess(files[k].name, NotAllowed(files[k].sniff)))

(***************************************************************************)
(* C17: processUpload fails with the invalid-file error exactly when the   *)
(* file's name is empty, its size is not a non-negative number, or its     *)
(* declared type is empty, and it does so before any byte of the file is   *)
(* read; a file with a name, a declared type and any non-negative size,    *)
(* 0 included, passes this step.                                           *)
(***************************************************************************)
LacksProperty(file) == file.name = "" \/ file.size \notin Nat \/ file.type = ""

FailedAsInvalid(k) ==
    \/ task[k].error = InvalidFileProperties
    \/ task[k].error = FailedToProcess(files[k].name, InvalidFileProperties)

Pending(stream) == IF stream.queue = <<>> THEN <<>> ELSE Head(stream.queue)

C18_Replayable ==
    \A i \in 1..Len(streams) :
        /\ streams[i].got \o Pending(streams[i]) = buffer
        /\ streams[i].ended => streams[i].got = buffer
        /\ ~streams[i].ended => ENABLED ReadStream(i)

C18_Witness ==
    /\ Len(buffer) = maxFileSize
    /\ Len(streams) = 3
    /\ streams[1].ended /\ streams[1].got = buffer
    /\ ~streams[2].ended /\ streams[2].got = <<>>
    /\ streams[3].ended /\ streams[3].got = buffer

(***************************************************************************)
(* C19: setValueAtPath creates the missing intermediate containers at any  *)
(* depth, an empty array when the next segment is all digits and an empty  *)
(* object otherwise, and puts the value at the end of the path: grafting   *)
(* "x" at "a.b.0.c" into the empty document yields {a: {b: [{c: "x"}]}}.    *)
(***************************************************************************)
Digits(seg) == seg \in {"0", "1", "2", "3", "4", "5", "6", "7", "8", "9"}

C19_IntermediateContainers ==
    graft.n >= 1 =>
        /\ ValueAtPath(heap, 1, graft.path) = graft.value
        /\ \A i \in 1..(Len(graft.path) - 1) :
              LET old == ValueAtPath(graft.before, 1, SubSeq(graft.path, 1, i))
                  new == ValueAtPath(heap, 1, SubSeq(graft.path, 1, i))
              IN  /\ new.t = "ref"
                  /\ old.t = "ref" => new = old
                  /\ old.t # "ref" =>
                        /\ new.id > Len(graft.before)
                        /\ heap[new.id].kind = IF Digits(graft.path[i + 1]) THEN "arr" ELSE "obj"
        /\ (graft.before = <<Node("obj", EmptyMap)>> /\ graft.path = <<"a", "b", "0", "c">>
              /\ graft.value = Str("x")) =>
              heap = << Node("obj", Put(EmptyMap, "a", Ref(2))), Node("obj", Put(EmptyMap, "b", Ref(3))),
                        Node("arr", Put(EmptyMap, "0", Ref(4))), Node("obj", Put(EmptyMap, "c", Str("x"))) >>

C19_Witness ==
    /\ graft.n = 1
    /\ graft.before = <<Node("obj", EmptyMap)>> /\ graft.path = <<"a", "b", "0", "c">>
    /\ ValueAtPath(heap, 1, <<"a", "b", "0", "c">>) = Str("x")
    /\ heap[3].kind = "arr"

(***************************************************************************)
(* C20: setValueAtPath is idempotent: for every document, path and value,  *)
(* grafting the same value at the same path again leaves the document as   *)
(* the first graft left it.                                                *)
(***************************************************************************)
C20_GraftIdempotent ==
    graft.n >= 2 => heap = graft.once

C20_Witness ==
    /\ graft.n = 2
    /\ graft.once # graft.before
    /\ Len(graft.once) > Len(graft.before)
    /\ graft.value = Ref(1)
    /\ heap = graft.once

(***************************************************************************)
(* C21: when an intermediate slot of the path already holds a container of *)
(* the wrong kind (an object where the next segment is an array index, an  *)
(* array where it is an object key), setValueAtPath replaces the slot with *)
(* a new empty container of the expected kind before descending.           *)
(***************************************************************************)
Expected(seg) == IF Digits(seg) THEN "arr" ELSE "obj"

WrongKind(h, v, seg) == v.t = "ref" /\ h[v.id].kind \in {"obj", "arr"} /\ h[v.id].kind # Expected(seg)

C21_WrongKindReplaced ==
    graft.n >= 1 =>
        \A i \in 1..(Len(graft.path) - 1) :
            LET old == ValueAtPath(graft.before, 1, SubSeq(graft.path, 1, i))
                new == ValueAtPath(heap, 1, SubSeq(graft.path, 1, i))
            IN  WrongKind(graft.before, old, graft.path[i + 1]) =>
                    /\ new.t = "ref" /\ new.id > Len(graft.before)
                    /\ heap[new.id].kind = Expected(graft.path[i + 1])

(***************************************************************************)
(* C22: setValueAtPath assigns the value at the final segment              *)
(* unconditionally, overwriting whatever was there (null, a scalar, an     *)
(* object or an array): reading the document along the same path right     *)
(* after the call returns exactly the grafted value.                       *)
(***************************************************************************)
C22_FinalSegmentOverwritten ==
    graft.n >= 1 =>
        LET last == graft.path[Len(graft.path)]
            parent == ValueAtPath(heap, 1, SubSeq(graft.path, 1, Len(graft.path) - 1))
        IN  /\ parent.t = "ref"
            /\ Get(heap[parent.id].f, last) = graft.value
            /\ ValueAtPath(heap, 1, graft.path) = graft.value

C22_Witness ==
    /\ graft.n = 1
    /\ graft.path = <<"a">>
    /\ ValueAtPath(graft.before, 1, <<"a">>) = Ref(2)
    /\ graft.before[2].kind = "arr"
    /\ graft.value = Null
    /\ ValueAtPath(heap, 1, <<"a">>) = Null

(***************************************************************************)
(* C23: for a request with one present, accepted file mapped to one path,  *)
(* the engine is invoked with the submitted query and a variables document *)
(* in which that path holds an Upload resolved with the record {fileName:  *)
(* the part's name, fileSize: the part's size, mimeType: the resolved      *)
(* type, encoding: 'binary'}; every other variable is as submitted.        *)
(***************************************************************************)
Submitted == JsonParse(request.operations.doc)

OneFileOnePath ==
    /\ FieldsParse /\ NumMapKeys = 1
    /\ MapEntries[1].isList /\ Len(Paths(0)) = 1
    /\ Paths(0)[1][1] = "variables"
    /\ Present(0) /\ ~LacksProperty(files[0]) /\ files[0].size <= maxFileSize
    /\ ByPrecedence(files[0]) \in allowedTypes

Variables == {<<"variables", "f">>, <<"variables", "files">>, <<"variables", "files", "0">>}

C23_EngineGetsResolvedUpload ==
    (OneFileOnePath /\ EngineInvoked) =>
        LET path == Paths(0)[1]
            doc == Invocation.heap
        IN  /\ Len(engine) = 1
            /\ Invocation.query = Get(Submitted[1].f, "query")
            /\ Invocation.variables.t = "ref"
            /\ Invocation.variables = ValueAtPath(doc, 1, <<"variables">>)
            /\ HoldsResolved(doc, path,
                   [fileName |-> files[0].name, fileSize |-> files[0].size,
                    mimeType |-> ByPrecedence(files[0]), encoding |-> "binary"])
            /\ \A p \in Variables :
                  \/ p = path
                  \/ IsPrefix(path, p)
                  \/ /\ IsPrefix(p, path)
                     /\ ValueAtPath(Submitted, 1, p).t = "ref"
                           => ValueAtPath(doc, 1, p) = ValueAtPath(Submitted, 1, p)
                  \/ /\ ~Overlap(p, path)
                     /\ ValueAtPath(doc, 1, p) = ValueAtPath(Submitted, 1, p)

C23_Witness ==
    /\ OneFileOnePath /\ EngineInvoked /\ Returned
    /\ files[0] = NoteTxt /\ Paths(0) = <<Own(0)>>
    /\ request.operations.doc = WithVariables
    /\ ValueAtPath(Invocation.heap, 1, Shared) = Null
    /\ HoldsResolved(Invocation.heap, Own(0), ResolvedFile(NoteTxt))

(***************************************************************************)
(* C24: no two per-key tasks share a mutable target: for every map, also   *)
(* when two keys list the same path or one key's path is a prefix of       *)
(* another's, a task writes only to the cells and document locations of    *)
(* its own key, so that what a settled task has written at its paths is    *)
(* not overwritten or altered by a step of another task.                   *)
(***************************************************************************)
C24_NoSharedTarget ==
    [][\A j \in MapKeys : (task[j].st = "done" /\ MapEntries[j + 1].isList) =>
          \A i \in 1..Len(Paths(j)) :
              ValueAtPath(heap', 1, Paths(j)[i]) = ValueAtPath(heap, 1, Paths(j)[i])]_vars

(***************************************************************************)
(* C25 (as claimed): every call of uploadProcess eventually returns, and   *)
(* once the per-key tasks have settled the request always goes on to the   *)
(* engine, unless the oversized short-circuit ended it: a request whose    *)
(* fields parse returns without the engine only with status 413.           *)
(***************************************************************************)
C25_EngineUnlessOversized ==
    (FieldsParse /\ Returned /\ response.status # 413) => EngineInvoked

(***************************************************************************)
(* C25 (amended): every call of uploadProcess eventually returns; a        *)
(* request that reaches the join always goes on to the engine, whether its *)
(* tasks settled by success or by failure; a request whose fields parse    *)
(* returns without the engine only by the oversized short-circuit or by    *)
(* the loop's throw at a key with no file and an entry that is no list.    *)
(***************************************************************************)
C25_ReturnsEngineUnlessLoopExit ==
    /\ <>Returned
    /\ (pc = "join") ~> EngineInvoked
    /\ []((FieldsParse /\ Returned /\ ~EngineInvoked) =>
            \/ response.status = 413
            \/ response = InternalError(TypeErrorNotAFunction) /\ \E k \in MapKeys : ThrowsInLoop(k))

C25_Witness ==
    /\ Returned /\ EngineInvoked
    /\ \E k, j \in MapKeys :
          /\ task[k].st = "done" /\ task[k].fp = "rejected"
          /\ task[j].st = "done" /\ task[j].fp = "fulfilled"

(***************************************************************************)
(* C26: classification is deterministic: two runs of processUpload on      *)
(* files with the same name, size, declared type and bytes, with the same  *)
(* allow-list, have the same outcome (both accepted with the same          *)
(* mimeType, or both rejected with the same error), whatever other file is *)
(* processed at the same time.                                             *)
(***************************************************************************)
Cause(k) ==
    LET e == task[k].error
    IN  IF e # <<>> /\ e[1] = "Failed to process file" THEN SubSeq(e, 3, Len(e)) ELSE e

Outcome(k) ==
    IF task[k].upload # 0
    THEN [accepted |-> TRUE, mimeType |-> heap[task[k].upload].cell.value.mimeType, error |-> NoError]
    ELSE [accepted |-> FALSE, mimeType |-> "", error |-> Cause(k)]

Settled(k) ==
    /\ k \in MapKeys /\ MapEntries[k + 1].isList
    /\ task[k].st \in {"returned", "done"}

AtTheLimit(k) == Present(k) /\ files[k].size = maxFileSize

C27_LimitExclusive ==
    /\ response.status = 413 => \E k \in MapKeys : Present(k) /\ files[k].size > maxFileSize
    /\ (WellFormed /\ Returned /\ \A k \in MapKeys : Present(k) /\ files[k].size <= maxFileSize) =>
          /\ EngineInvoked
          /\ \A k \in MapKeys : task[k].st # "idle"
    /\ (OneFileOnePath /\ AtTheLimit(0) /\ EngineInvoked) =>
          HoldsSettledUpload(Invocation.heap, Paths(0)[1])

C27_Witness ==
    /\ OneFileOnePath /\ AtTheLimit(0)
    /\ Returned /\ response.status = 200
    /\ HoldsSettledUpload(Invocation.heap, Paths(0)[1])

(***************************************************************************)
(* C28: processUpload (the stream read and the classification) is started  *)
(* only for a file that a map key references and that has passed the size  *)
(* check: the stream of an oversized file is never opened, and a file part *)
(* that no map key references is never read, classified or size-checked.   *)
(***************************************************************************)
Unreferenced(k) == k \in Keys \ MapKeys /\ files[k] # NoPart

C28_StartedOnlyIfReferencedAndSized ==
    /\ \A k \in Keys : task[k].st # "idle" =>
          k \in MapKeys /\ Present(k) /\ files[k].size <= maxFileSize
    /\ \A n \in Uploads : heap[n].owner \in MapKeys /\ files[heap[n].owner].size <= maxFileSize
    /\ response.status = 413 => \E k \in MapKeys : Oversized(k)

C28_Witness ==
    /\ Returned /\ EngineInvoked
    /\ \E k \in Keys : Unreferenced(k) /\ files[k] = BigPng /\ task[k] = IdleTask
    /\ \E j \in MapKeys : task[j].st = "done"

(***************************************************************************)
(* C29 (as claimed): when a map key lists several paths, all of them hold  *)
(* one and the same cell by reference after the key's task has settled,    *)
(* whether the file was accepted or rejected.  (Stated for keys whose      *)
(* paths no other listed path overlaps.)                                   *)
(***************************************************************************)
SettledAlone(k) ==
    /\ MapEntries[k + 1].isList /\ task[k].st = "done"
    /\ \A i \in 1..Len(Paths(k)) : Alone(k, i)

C29_OneCellAtEveryPath ==
    \A k \in MapKeys : SettledAlone(k) =>
        \A i, j \in 1..Len(Paths(k)) :
            /\ IsUpload(heap, ValueAtPath(heap, 1, Paths(k)[i]))
            /\ ValueAtPath(heap, 1, Paths(k)[i]) = ValueAtPath(heap, 1, Paths(k)[j])

(***************************************************************************)
(* C29 (amended): after the task of a key that lists several paths has     *)
(* settled, an accepted file's paths all hold one and the same Upload, the *)
(* one processUpload returned; a rejected file's paths hold one Upload     *)
(* each, distinct cells, all rejected with the same error.                 *)
(***************************************************************************)
C29_SharedIfAcceptedDistinctIfRejected ==
    \A k \in MapKeys : SettledAlone(k) =>
        IF task[k].fp = "fulfilled"
        THEN \A i \in 1..Len(Paths(k)) :
                /\ ValueAtPath(heap, 1, Paths(k)[i]) = Ref(task[k].upload)
                /\ HoldsResolved(heap, Paths(k)[i], ResolvedFile(files[k]))
        ELSE \A i, j \in 1..Len(Paths(k)) :
                /\ HoldsRejected(heap, Paths(k)[i], task[k].error)
                /\ i # j => ValueAtPath(heap, 1, Paths(k)[i]) # ValueAtPath(heap, 1, Paths(k)[j])

C29_Witness ==
    \E k \in MapKeys :
        /\ SettledAlone(k) /\ task[k].fp = "rejected"
        /\ Paths(k) = <<Own(k), Shared>>
        /\ HoldsRejected(heap, Own(k), task[k].error)
        /\ HoldsRejected(heap, Shared, task[k].error)
        /\ ValueAtPath(heap, 1, Own(k)) # ValueAtPath(heap, 1, Shared)

(***************************************************************************)
(* C30: every Upload that uploadProcess writes into the operations         *)
(* document is settled when it is written (resolved by processUpload       *)
(* before it is returned, or rejected before it is grafted): in no         *)
(* reachable state does the document hold an Upload whose promise is       *)
(* pending.                                                                *)
(***************************************************************************)
C30_NoPendingUploadInDocument ==
    \A m \in 1..Len(heap) : \A key \in DOMAIN heap[m].f :
        LET v == heap[m].f[key]
        IN  IsUpload(heap, v) =>
                LET c == heap[v.id].cell
                    file == files[heap[v.id].owner]
                IN  \/ c.state = "fulfilled" /\ c.value = ResolvedFile(file) /\ c.file = c.value
                    \/ c.state = "rejected" /\ c.error[1] = "Failed to process file" /\ c.file = NoFile

C30_Witness ==
    /\ EngineInvoked
    /\ \E k, j \in MapKeys :
          /\ HoldsResolved(heap, Own(k), ResolvedFile(files[k]))
          /\ HoldsRejected(heap, Own(j), task[j].error)

(***************************************************************************)
(* C31: grafting only touches the variables subtree: for every map, also   *)
(* one whose paths do not start with 'variables.', the query handed to     *)
(* server.executeOperation is the query of the submitted operations        *)
(* document, and uploadProcess changes no field of the operations document *)
(* other than `variables`.                                                 *)
(***************************************************************************)
C31_OnlyVariablesTouched ==
    heap # <<>> =>
        /\ \A key \in (DOMAIN heap[1].f \cup DOMAIN Submitted[1].f) \ {"variables"} :
              Get(heap[1].f, key) = Get(Submitted[1].f, key)
        /\ EngineInvoked => Invocation.query = Get(Submitted[1].f, "query")


(***************************************************************************)
(* C32: every call of uploadProcess invokes server.executeOperation at     *)
(* most once and returns exactly one response, which is the 413 oversized  *)
(* error, a 500 error list, the forwarded single result or the             *)
(* materialized incremental document; the 413 and the malformed-request    *)
(* outcomes never coincide with an engine invocation.                      *)
(***************************************************************************)
OneOfTheResponses ==
    \/ \E k \in MapKeys : Oversized(k) /\ response = PayloadTooLarge(files[k])
    \/ response.status = 500 /\ response.kind = "errors"
    \/ request.server.kind = "single" /\ response = SingleResponse(request.server.result)
    \/ /\ request.server.kind = "incremental"
       /\ response = IncrementalResponse(request.server.result, request.server.rest)

C32_OneResponseOneInvocation ==
    /\ [](/\ Len(engine) <= 1
          /\ Returned <=> response # NoResponse
          /\ Returned => OneOfTheResponses
          /\ response.status = 413 => ~EngineInvoked
          /\ ~FieldsParse /\ Returned => ~EngineInvoked /\ response.status = 500)
    /\ [][response # NoResponse => response' = response /\ engine' = engine]_vars

C32_Witness ==
    /\ response.status = 413 /\ ~EngineInvoked
    /\ \E k \in Keys : task[k].st = "done"


(***************************************************************************)
(* C33: setValueAtPath changes nothing off the path: when every            *)
(* intermediate slot on the path is absent or already an object or an      *)
(* array, every entry of the document that is not on the path (the         *)
(* siblings in each visited container, and their subtrees) is the same     *)
(* after the graft as before it.                                           *)
(***************************************************************************)
IntermediatesFit ==
    \A i \in 1..(Len(graft.path) - 1) :
        LET v == ValueAtPath(graft.before, 1, SubSeq(graft.path, 1, i))
        IN  v = Undefined \/ v.t = "ref"

\* the entry `key` of node m is one the walk along the path goes through
OnPath(m, key) ==
    \E i \in 1..Len(graft.path) :
        /\ key = graft.path[i]
        /\ ValueAtPath(graft.before, 1, SubSeq(graft.path, 1, i - 1)) = Ref(m)

C33_OffPathUnchanged ==
    (graft.n >= 1 /\ IntermediatesFit) =>
        /\ Len(heap) >= Len(graft.before)
        /\ \A m \in 1..Len(graft.before) :
              /\ heap[m].kind = graft.before[m].kind
              /\ \A key \in DOMAIN heap[m].f \cup DOMAIN graft.before[m].f :
                    ~OnPath(m, key) => Get(heap[m].f, key) = Get(graft.before[m].f, key)

C33_Witness ==
    /\ graft.n = 1 /\ IntermediatesFit
    /\ graft.before = JsonParse(WithVariables)
    /\ graft.path = <<"variables", "files", "1", "x">>
    /\ Len(heap) > Len(graft.before)
    /\ Get(heap[1].f, "query") = Get(graft.before[1].f, "query")
    /\ ValueAtPath(heap, 1, <<"variables", "files", "0">>)
          = ValueAtPath(graft.before, 1, <<"variables", "files", "0">>)


(***************************************************************************)
(* C34: when the paths listed across all map keys are pairwise distinct    *)
(* and none is a prefix of another, the variables document present once    *)
(* all per-key tasks have settled is the same for every order in which     *)
(* those tasks complete.  The document is compared by content with the     *)
(* one the completion in the order of the keys yields.                     *)
(***************************************************************************)
\* the content under a value: containers by their entries, Uploads by
\* their cell and the key they were made for
RECURSIVE Content(_, _)
Content(h, v) ==
    IF v.t # "ref" THEN v
    ELSE IF h[v.id].kind = "upload"
         THEN [kind |-> "upload", cell |-> h[v.id].cell, owner |-> h[v.id].owner]
         ELSE [kind |-> h[v.id].kind,
               f |-> [key \in DOMAIN h[v.id].f |-> Content(h, h[v.id].f[key])]]

\* the operations document as the loop finds it (lines 191-197)
Parsed ==
    IF Falsy(Get(Submitted[1].f, "variables"))
    THEN [Alloc(Submitted, Node("obj", EmptyMap)) EXCEPT ![1].f = Put(@, "variables", Ref(NewId(Submitted)))]
    ELSE Submitted

\* the grafts of the keys from k on, one key after the other, with the
\* outcome each task has reached
RECURSIVE InKeyOrder(_, _)
InKeyOrder(k, h) ==
    IF k >= NumMapKeys THEN h
    ELSE IF ~Present(k) THEN InKeyOrder(k + 1, GraftMissing(h, Paths(k)))
    ELSE IF task[k].upload # 0
         THEN InKeyOrder(k + 1, GraftAll(Alloc(h, heap[task[k].upload]), Paths(k), 1, Ref(NewId(h))))
         ELSE InKeyOrder(k + 1, GraftRejected(h, Paths(k), 1, k, task[k].error))

AllSettled ==
    /\ WellFormed /\ heap # <<>> /\ pc \notin {"formData", "parse", "loop"}
    /\ \A k \in MapKeys : Present(k) => task[k].st = "done"

C34_OrderIndependent ==
    (AllSettled /\ DisjointPaths) =>
        Content(heap, Get(heap[1].f, "variables"))
            = Content(InKeyOrder(0, Parsed), Get(InKeyOrder(0, Parsed)[1].f, "variables"))


(***************************************************************************)
(* C35: the GraphQLUpload scalar yields a file only from an Upload cell:   *)
(* parseValue returns the cell's promise when the value is an Upload       *)
(* instance and a GraphQLError value, returned and not thrown, for every   *)
(* other value; parseLiteral and serialize fail for every input; a         *)
(* resolver awaiting the parsed value obtains the file if the cell was     *)
(* resolved and the rejection error if it was rejected (by the call that   *)
(* settled the cell, the first one).                                       *)
(***************************************************************************)
C35_FileOnlyFromUpload ==
    /\ scalar.op = "parseValue" =>
          IF scalar.input = TheUpload
          THEN scalar.out.kind = "promise"
          ELSE scalar.out = [kind |-> "returned", message |-> "Upload value invalid."]
    /\ scalar.op \in {"parseLiteral", "serialize"} => scalar.out.kind = "thrown"
    /\ scalar.got.kind # "none" =>
          /\ scalar.op = "parseValue" /\ scalar.input = TheUpload /\ calls # <<>>
          /\ IF calls[1].op = "resolve"
             THEN scalar.got = [kind |-> "value", file |-> calls[1].file, error |-> NoError]
             ELSE scalar.got = [kind |-> "thrown", file |-> NoFile, error |-> calls[1].error]

\* the resolver got the file the cell was resolved with, and a later
\* reject on the cell has not changed what it got
C35_Witness ==
    /\ scalar.op = "parseValue" /\ scalar.input = TheUpload
    /\ scalar.got.kind = "value" /\ scalar.got.file \in SomeFiles
    /\ Len(calls) >= 2 /\ calls[1].op = "resolve" /\ calls[2].op = "reject"

====
